---- MODULE Spec2Model ----
(***************************************************************************)
(* State-machine model of src/app/main.py (class MainWindow): the          *)
(* tri-state selection tree, the selection statistics, the two exporters   *)
(* and the live watch / debounce controller.                               *)
(*                                                                         *)
(* A file-system entry is a node id 1..fs.n, node 1 being the project      *)
(* root.  The order of node ids inside one directory stands for the        *)
(* case-insensitive name order used by the scanner.                        *)
(***************************************************************************)
EXTENDS Integers, Sequences, FiniteSets, TLC

VARIABLES
    fs,                    \* the directory structure on disk (fixed in a behaviour)
    exists,                \* the nodes present on disk right now
    outOK,                 \* the output directory can be written right now
    project_path,          \* self.project_path  ("None" or "proj")
    export_path,           \* self.export_path   ("None", "ext" or "proj")
    tree,                  \* the nodes held by self.tree (QTreeWidget items)
    checkState,            \* item.checkState(0) of every node
    selected_files,        \* self.selected_files
    selected_groups_count, \* self.selected_groups_count
    is_auto_running,       \* self.is_auto_running
    watcher,               \* self.watcher.files(): the subscribed paths
    gone,                  \* watched files removed from disk whose removal
                           \* notification is not delivered yet
    debounce_timer,        \* ticks left of self.debounce_timer, -1 when inactive
    stack,                 \* the exports begun and not finished, innermost last
    burst,                 \* history: a notification of this live session is not
                           \* re-exported yet (pending); ticks since the last (since)
    lastOp,                \* history: the handler that ran last and its outcome
    docs,                  \* the output documents on disk, by file name (followed
                           \* by the export jobs of the document specifications)
    job                    \* what the last export job logged and reported

selVars  == <<project_path, tree, checkState, selected_files, selected_groups_count>>
diskVars == <<fs, exists, outOK>>
liveVars == <<is_auto_running, watcher, gone, debounce_timer, burst>>
outVars  == <<docs, job>>
vars     == <<fs, exists, outOK, project_path, export_path, tree, checkState,
              selected_files, selected_groups_count, is_auto_running, watcher, gone,
              debounce_timer, stack, burst, lastOp, docs, job>>

(***************************************************************************)
(* Bounds of the model.                                                    *)
(***************************************************************************)
MaxNodes   == 5      \* largest directory tree enumerated by InitSel
MaxDepth   == 2      \* exports that may be in progress at once
MaxMissing == 1      \* files that may be missing from the disk at once
MaxScanNodes == 4    \* largest directory tree enumerated by InitScan
MaxDocNodes == 4     \* largest directory tree enumerated by InitDoc
MaxDirs == 2         \* most directories under the root enumerated by InitCollide

\* self.debounce_timer.setInterval(500), in ticks of 250 ms
DebounceInterval == 2

(***************************************************************************)
(* Directory structures.                                                   *)
(***************************************************************************)
Root == 1

ParentMaps(n) ==
    { p \in [1..n -> 0..(n - 1)] :
        /\ p[1] = 0
        /\ \A k \in 2..n : p[k] >= 1 /\ p[k] < k }

DirMaps(n, p) ==
    { d \in [1..n -> BOOLEAN] :
        /\ d[1]
        /\ \A k \in 2..n : d[p[k]] }

ShapesOf(n) ==
    UNION { { [n |-> n, parent |-> p, isDir |-> d, sent |-> 0, all |-> 0,
               locked |-> {}, kind |-> [ k \in 1..n |-> "text" ], merge |-> {},
               sub |-> 0, grp |-> 0] :
                d \in DirMaps(n, p) } : p \in ParentMaps(n) }

\* every tree of at most MaxNodes entries whose inner nodes are directories
Shapes == UNION { ShapesOf(n) : n \in 1..MaxNodes }

Nodes == 1..fs.n
Files == { n \in Nodes : ~fs.isDir[n] }

RECURSIVE Asc(_)
Asc(S) ==
    IF S = {} THEN <<>>
    ELSE LET m == CHOOSE x \in S : \A y \in S : x <= y
         IN  <<m>> \o Asc(S \ {m})

\* os.scandir sorted by (not is_dir, name.lower()): directories, then files
ScanOrder(S) == Asc({ n \in S : fs.isDir[n] }) \o Asc({ n \in S : ~fs.isDir[n] })

\* item.child(0..childCount-1) of an item of the tree holding the nodes t
Children(t, item) == ScanOrder({ c \in t : fs.parent[c] = item })
childCount(t, item) == Cardinality({ c \in t : fs.parent[c] = item })

RECURSIVE AddChildren(_)
AddChildren(p) ==
    IF p \in fs.locked THEN {}
    ELSE UNION { IF fs.isDir[c] THEN {c} \cup AddChildren(c) ELSE {c} :
                   c \in { c \in exists : fs.parent[c] = p } }

\* the "[WARN]" lines _add_children logs while the tree t is built
ScanWarnings(t) == { d \in t : fs.isDir[d] /\ d \in fs.locked }

(***************************************************************************)
(* Check-state propagation.  t is the set of nodes of the tree, cs the     *)
(* check state of every node.                                              *)
(***************************************************************************)
CheckStates == {"Unchecked", "PartiallyChecked", "Checked"}

RECURSIVE SetKids(_, _, _, _)
\* a faulty variant: only the immediate children are forced, no recursion
SetChildrenShallow(t, cs, item, state) ==
    [ n \in DOMAIN cs |->
        IF n \in t /\ fs.parent[n] = item THEN state ELSE cs[n] ]

\* a faulty variant: the children get the state of the directory above item
SetChildrenFromAbove(t, cs, item, state) ==
    [ n \in DOMAIN cs |->
        IF n \in t /\ fs.parent[n] = item
        THEN (IF item = Root THEN state ELSE cs[fs.parent[item]])
        ELSE cs[n] ]

\* _set_children_check_state(item, state)
SetChildren(t, cs, item, state) == SetKids(t, cs, Children(t, item), state)

SetKids(t, cs, kids, state) ==
    IF kids = <<>> THEN cs
    ELSE LET child == Head(kids)
             c1    == [cs EXCEPT ![child] = state]
             c2    == IF childCount(t, child) > 0
                      THEN SetChildren(t, c1, child, state)
                      ELSE c1
         IN  SetKids(t, c2, Tail(kids), state)

\* a faulty variant: a Partial child does not keep the parent from being Unchecked
FoldNoPartial(t, cs, parent) ==
    LET kids          == Children(t, parent)
        checked_count == Cardinality({ i \in 1..Len(kids) : cs[kids[i]] = "Checked" })
    IN  IF checked_count = Len(kids) THEN "Checked"
        ELSE IF checked_count = 0 THEN "Unchecked"
        ELSE "PartiallyChecked"

\* the state _update_parent_states gives to parent from its children
Fold(t, cs, parent) ==
    LET kids          == Children(t, parent)
        child_count   == Len(kids)
        checked_count == Cardinality({ i \in 1..child_count : cs[kids[i]] = "Checked" })
        partial_count == Cardinality({ i \in 1..child_count :
                                          cs[kids[i]] = "PartiallyChecked" })
    IN  IF checked_count = child_count THEN "Checked"
        ELSE IF checked_count = 0 /\ partial_count = 0 THEN "Unchecked"
        ELSE "PartiallyChecked"

\* _update_parent_states(item); the tree state is bound to a value at each
\* level so that it is computed once
RECURSIVE UpdateParents(_, _, _)
UpdateParents(t, cs0, item) ==
    LET parent == fs.parent[item]
    IN  IF parent = 0 THEN cs0
        ELSE CHOOSE r \in { UpdateParents(t, [cs EXCEPT ![parent] = Fold(t, cs, parent)],
                                          parent) : cs \in {cs0} } : TRUE

(***************************************************************************)
(* Selection statistics and collection.                                    *)
(***************************************************************************)
\* rel_dir of recalc_selection_stats: "." becomes the display text of the
\* root group; a top-level directory carrying that very name (fs.sent) has
\* the same key
StatsKey(dir) ==
    IF dir = Root \/ dir = fs.sent THEN 0 ELSE dir

\* a faulty variant: every Checked node is counted, directories included
RECURSIVE WalkCountAll(_, _, _)
WalkCountAll(t, cs, kids) ==
    IF kids = <<>> THEN 0
    ELSE LET child == Head(kids)
         IN  (IF cs[child] = "Checked" THEN 1 ELSE 0)
             + (IF fs.isDir[child] THEN WalkCountAll(t, cs, Children(t, child)) ELSE 0)
             + WalkCountAll(t, cs, Tail(kids))

\* walk() of recalc_selection_stats: the selected_files counter
RECURSIVE WalkCount(_, _, _)
WalkCount(t, cs, kids) ==
    IF kids = <<>> THEN 0
    ELSE LET child == Head(kids)
         IN  (IF fs.isDir[child] THEN WalkCount(t, cs, Children(t, child))
              ELSE IF cs[child] = "Checked" THEN 1 ELSE 0)
             + WalkCount(t, cs, Tail(kids))

\* walk() of recalc_selection_stats: the selected_groups set
RECURSIVE WalkGroups(_, _, _)
WalkGroups(t, cs, kids) ==
    IF kids = <<>> THEN {}
    ELSE LET child == Head(kids)
         IN  (IF fs.isDir[child] THEN WalkGroups(t, cs, Children(t, child))
              ELSE IF cs[child] = "Checked" THEN {StatsKey(fs.parent[child])} ELSE {})
             \cup WalkGroups(t, cs, Tail(kids))

\* walk() of _collect_selected_files: the selected files in traversal order
RECURSIVE CollectKids(_, _, _)
CollectKids(t, cs, kids) ==
    IF kids = <<>> THEN <<>>
    ELSE LET child == Head(kids)
         IN  (IF fs.isDir[child] THEN CollectKids(t, cs, Children(t, child))
              ELSE IF cs[child] = "Checked" THEN <<child>> ELSE <<>>)
             \o CollectKids(t, cs, Tail(kids))

\* _collect_selected_files()
CollectSelectedFiles ==
    IF project_path = "None" \/ tree = {} THEN <<>>
    ELSE CollectKids(tree, checkState, Children(tree, Root))

\* a faulty variant: the counter is not reset before the walk
RecalcAccumulating(pp, t, cs) ==
    IF t = {} \/ pp = "None" THEN 0
    ELSE selected_files + WalkCount(t, cs, Children(t, Root))

\* recalc_selection_stats(): the value stored in self.selected_files, for
\* the project path pp, the tree t and the check states cs
RecalcSelectedFiles(pp, t, cs) ==
    IF t = {} \/ pp = "None" THEN 0
    ELSE WalkCount(t, cs, Children(t, Root))

\* recalc_selection_stats(): the value stored in self.selected_groups_count
RecalcSelectedGroups(pp, t, cs) ==
    IF t = {} \/ pp = "None" THEN 0
    ELSE Cardinality(WalkGroups(t, cs, Children(t, Root)))

(***************************************************************************)
(* Paths.  A path string is the entry it names (0: the output document of  *)
(* an output directory outside the project) and whether it is in the       *)
(* normal form that os.path.normpath produces.                             *)
(***************************************************************************)
\* os.path.join(parent_path, name) of _add_children: item.data(0, UserRole)
AbsPath(n) == [id |-> n, norm |-> FALSE]

\* os.path.normpath(path)
normpath(path) == [path EXCEPT !.norm = TRUE]

\* os.path.join(self.export_path, project_name + "_all.txt"): inside the
\* project root it is the entry fs.all, if the structure has one
TargetPath ==
    [id |-> IF export_path = "proj" THEN fs.all ELSE 0, norm |-> FALSE]

\* os.path.exists(path)
PathExists(path) == path.id \in exists

\* the directories the user can pick in choose_export_path: one outside the
\* project, the project root, and the subdirectory fs.sub of the project
ExportDirs == {"ext", "proj"} \cup (IF fs.sub # 0 THEN {"sub"} ELSE {})

(***************************************************************************)
(* The exporters.  A frame of the stack is one call of start_export_*      *)
(* that has not returned, and says whether it was called with is_auto=True.*)
(* Between its first file and its return the write loop calls              *)
(* QApplication.processEvents() after every file unless is_auto.           *)
(***************************************************************************)
Top == stack[Len(stack)]

\* handlers run from the event loop, or from QApplication.processEvents()
\* inside an export that was not called with is_auto=True
EventsEnabled == IF stack = <<>> THEN TRUE ELSE ~Top.auto

\* how a call of start_export_grouped / start_export_single begins:
\* "blocked" by a guard, "failed" on opening the document, or "started"
ExportOutcome ==
    IF project_path = "None" \/ export_path = "None" \/ CollectSelectedFiles = <<>>
    THEN "blocked"
    ELSE IF ~outOK THEN "failed"
    ELSE "started"

\* the frame of an export that wrote its header and its first file
NewFrame(auto) == [auto |-> auto]

\* a faulty variant: the document is opened before the guards are tested
begin_export_opening_first(mode, auto) ==
    /\ stack' = IF ExportOutcome = "started"
                THEN Append(stack, NewFrame(auto))
                ELSE stack
    /\ exists' = IF outOK /\ mode = "single"
                    /\ export_path = "proj" /\ fs.all # 0
                 THEN exists \cup {fs.all}
                 ELSE exists

\* start_export_grouped() / start_export_single(is_auto) up to the first
\* QApplication.processEvents(), or to the first file when is_auto
begin_export(mode, auto) ==
    /\ stack' = IF ExportOutcome = "started"
                THEN Append(stack, NewFrame(auto))
                ELSE stack
    /\ exists' = IF ExportOutcome = "started" /\ mode = "single"
                    /\ export_path = "proj" /\ fs.all # 0
                 THEN exists \cup {fs.all}
                 ELSE exists

Did(op, item, res, exp) ==
    lastOp' = [op |-> op, item |-> item, res |-> res, exp |-> exp]

(***************************************************************************)
(* User commands.                                                          *)
(***************************************************************************)
\* a faulty variant: the rebuilt items take over the check states of before
load_project_tree_keeping(pp) ==
    \E t \in {{Root} \cup AddChildren(Root)}, cs \in {checkState} :
        /\ tree' = t
        /\ checkState' = cs
        /\ selected_files' = RecalcSelectedFiles(pp, t, cs)
        /\ selected_groups_count' = RecalcSelectedGroups(pp, t, cs)

\* load_project_tree() for the project path pp: the tree is rebuilt from the
\* disk, all Unchecked, and recalc_selection_stats() runs on the rebuilt tree
load_project_tree(pp) ==
    \E t \in {{Root} \cup AddChildren(Root)}, cs \in {[ n \in Nodes |-> "Unchecked" ]} :
        /\ tree' = t
        /\ checkState' = cs
        /\ selected_files' = RecalcSelectedFiles(pp, t, cs)
        /\ selected_groups_count' = RecalcSelectedGroups(pp, t, cs)

\* choose_project(): the dialog returned a directory (button or Ctrl+O)
ChooseProject ==
    /\ EventsEnabled
    /\ UNCHANGED <<outVars, diskVars, export_path, liveVars, stack>>
    /\ project_path' = "proj"
    /\ load_project_tree("proj")
    /\ Did("choose_project", 0,
           IF ScanWarnings({Root} \cup AddChildren(Root)) = {}
           THEN "loaded" ELSE "loaded_with_warnings",
           IF \E n \in tree : checkState[n] # "Unchecked"
           THEN "had_selection" ELSE "none")

\* choose_export_path(): the dialog returned a directory (button or Ctrl+Shift+O)
ChooseExportPath ==
    \E path \in ExportDirs :
        /\ EventsEnabled
        /\ export_path' = path
        /\ Did("choose_export_path", 0, path, "none")
        /\ UNCHANGED <<outVars, diskVars, selVars, liveVars, stack>>

\* on_item_changed(item, 0) after the user set item's check box to state
on_item_changed(item, state) ==
    /\ project_path # "None"
    /\ UNCHANGED <<project_path, tree>>
    /\ LET c0 == [checkState EXCEPT ![item] = state]
           c1 == IF fs.isDir[item] THEN SetChildren(tree, c0, item, state) ELSE c0
       IN  \E cs \in {UpdateParents(tree, c1, item)} :
              /\ checkState' = cs
              /\ selected_files' = RecalcSelectedFiles(project_path, tree, cs)
              /\ selected_groups_count' = RecalcSelectedGroups(project_path, tree, cs)

\* the user clicks a check box; the tree is disabled while live mode runs
OnItemChanged ==
    \E item \in tree, state \in {"Checked", "Unchecked"} :
        /\ EventsEnabled
        /\ ~is_auto_running
        /\ UNCHANGED <<outVars, diskVars, export_path, liveVars, stack>>
        /\ on_item_changed(item, state)
        /\ Did("on_item_changed", item, state,
               IF item = Root /\ state = "Unchecked"
                  /\ lastOp.op = "on_item_changed" /\ lastOp.item = Root
                  /\ lastOp.res = "Checked"
               THEN "after_root_checked"
               ELSE IF item = Root /\ checkState[item] = state THEN "repeat" ELSE "none")

\* start_export_grouped(): button, or Ctrl+E at any time
StartExportGrouped ==
    /\ EventsEnabled
    /\ Len(stack) < MaxDepth
    /\ begin_export("grouped", FALSE)
    /\ Did("start_export_grouped", 0, "", ExportOutcome)
    /\ UNCHANGED <<outVars, fs, outOK, export_path, selVars, liveVars>>

\* start_export_single(): button, or Ctrl+Shift+E at any time
StartExportSingle ==
    /\ EventsEnabled
    /\ Len(stack) < MaxDepth
    /\ begin_export("single", FALSE)
    /\ Did("start_export_single", 0, "", ExportOutcome)
    /\ UNCHANGED <<outVars, fs, outOK, export_path, selVars, liveVars>>

\* the innermost export returns: its write loop ended, or raised OSError
\* and the handler reported it
ExportStep ==
    /\ stack # <<>>
    /\ stack' = SubSeq(stack, 1, Len(stack) - 1)
    /\ UNCHANGED <<outVars, diskVars, export_path, selVars, liveVars, lastOp>>

(***************************************************************************)
(* Documents.  A document is the sequence of the pieces of text written    *)
(* to it; the documents on disk are a set of (file name, text) pairs.  An   *)
(* export job is the whole of start_export_grouped or start_export_single  *)
(* with no event handled by its QApplication.processEvents() calls.        *)
(***************************************************************************)
\* file names in the output directory
AllName  == -1      \* project_name + "_all.txt"
BaseName == 0       \* basename of the project root + ".txt"

\* dir_key values: a directory other than these two has its own id as key
RootKey     == -1   \* ""
SentinelKey == 0    \* "(корень проекта)"

Tok(t, f) == [t |-> t, f |-> f]

\* the class constant: the marker line
FILE_SEPARATOR == Tok("marker", 0)

\* _write_export_header(out): the explanation, whose last line holds the
\* literal marker text
Header == <<Tok("header", 0), FILE_SEPARATOR>>

NoDocs == {}
NoJob  == [mode |-> "none", keys |-> <<>>, written |-> {}, log |-> {},
           done |-> 0, completed |-> FALSE, before |-> {}]

HasDoc(d, name)  == \E r \in d : r.name = name
DocText(d, name) == (CHOOSE r \in d : r.name = name).text
Put(d, name, text) == { r \in d : r.name # name } \cup {[name |-> name, text |-> text]}

\* the names of output documents that are the project entry f itself, for
\* the chosen output directory
DocNamesAt(f) ==
    (IF export_path = "proj" /\ f = fs.all THEN {AllName} ELSE {})
    \cup (IF export_path = "sub" /\ f = fs.grp THEN {BaseName} ELSE {})

\* _read_file_safe(abs_path)[0] while the documents d are on disk
read_file_safe(f, d) ==
    IF \E name \in DocNamesAt(f) : HasDoc(d, name)
    THEN DocText(d, CHOOSE name \in DocNamesAt(f) : HasDoc(d, name))
    ELSE CASE fs.kind[f] = "text"       -> <<Tok("line", f)>>
           [] fs.kind[f] = "marker"     -> <<Tok("line", f), FILE_SEPARATOR, Tok("line", f)>>
           [] fs.kind[f] = "binary"     -> <<Tok("binary", 0)>>
           [] fs.kind[f] = "unreadable" -> <<Tok("error", f)>>

\* os.path.relpath(abs_path, self.project_path): the names from below the
\* root down to n, joined by os.sep
RECURSIVE PathSeq(_)
PathSeq(n) == IF n = Root THEN <<>> ELSE Append(PathSeq(fs.parent[n]), n)

RelPath(f) == [names |-> PathSeq(f), sep |-> "os.sep"]

\* rel_path.replace(os.sep, "/") as the first line of a block
RelUnix(rel_path) == Tok("path", rel_path.names[Len(rel_path.names)])

\* the order of two relative paths as strings: decided by the first name
\* that differs (no name is the beginning of the name next to it)
RECURSIVE SeqLess(_, _)
SeqLess(a, b) ==
    IF a = <<>> THEN b # <<>>
    ELSE IF b = <<>> THEN FALSE
    ELSE \/ Head(a) < Head(b)
         \/ Head(a) = Head(b) /\ SeqLess(Tail(a), Tail(b))

RelLess(f, g) == SeqLess(RelPath(f).names, RelPath(g).names)

\* a faulty variant: the files are written in traversal order
Unsorted(files) == files

\* sorted(files, key=lambda x: x[0])
RECURSIVE SortedByRelPath(_)
SortedByRelPath(files) ==
    IF files = <<>> THEN <<>>
    ELSE LET S == { files[i] : i \in 1..Len(files) }
             m == CHOOSE x \in S : \A y \in S \ {x} : RelLess(x, y)
         IN  <<m>> \o SortedByRelPath(SelectSeq(files, LAMBDA f : f # m))

\* a faulty variant: every file is written twice
RECURSIVE BlocksTwice(_, _, _, _)
BlocksTwice(file_list, i, upto, d) ==
    IF i > upto THEN <<>>
    ELSE <<RelUnix(RelPath(file_list[i]))>> \o read_file_safe(file_list[i], d)
         \o <<FILE_SEPARATOR>>
         \o <<RelUnix(RelPath(file_list[i]))>> \o read_file_safe(file_list[i], d)
         \o (IF i # Len(file_list) THEN <<FILE_SEPARATOR>> ELSE <<>>)
         \o BlocksTwice(file_list, i + 1, upto, d)

\* the pieces written for file_list[i..upto]: path, content and, except
\* after the last file of the list, the marker
RECURSIVE Blocks(_, _, _, _)
Blocks(file_list, i, upto, d) ==
    IF i > upto THEN <<>>
    ELSE <<RelUnix(RelPath(file_list[i]))>>
         \o read_file_safe(file_list[i], d)
         \o (IF i # Len(file_list) THEN <<FILE_SEPARATOR>> ELSE <<>>)
         \o Blocks(file_list, i + 1, upto, d)

\* dir_key of start_export_grouped for the file f
GroupKey(f) ==
    IF fs.parent[f] = Root THEN RootKey
    ELSE IF fs.parent[f] = fs.sent THEN SentinelKey
    ELSE fs.parent[f]

\* the keys of the dict groups, in insertion order
RECURSIVE GroupKeys(_, _)
GroupKeys(files, seen) ==
    IF files = <<>> THEN <<>>
    ELSE IF GroupKey(Head(files)) \in seen THEN GroupKeys(Tail(files), seen)
    ELSE <<GroupKey(Head(files))>>
         \o GroupKeys(Tail(files), seen \cup {GroupKey(Head(files))})

\* _make_group_filename(dir_key), as the name it returns: the directories in
\* fs.merge (the root among them or not) are cleaned to one and the same name
make_group_filename(dir_key) ==
    IF dir_key \in {RootKey, SentinelKey} THEN BaseName
    ELSE IF dir_key \in fs.merge
         THEN (IF Root \in fs.merge THEN BaseName
               ELSE CHOOSE m \in fs.merge : \A o \in fs.merge : m <= o)
    ELSE dir_key

\* the write failures given to a job: none, or one document that cannot be
\* opened ("open") or whose buffered text cannot be written out when the
\* document is closed ("close")
Faults(names) ==
    {{}} \cup { {[name |-> m, at |-> k]} : m \in names, k \in {"open", "close"} }

\* add_log("[ERROR] ..."): what the line is about
LogError(about, id) == [about |-> about, id |-> id]

\* a faulty variant: a file the job has written is not written again
WriteDocumentOnce(acc, name, file_list, faults) ==
    LET hit    == { x \in faults : x.name = name }
        at     == (CHOOSE x \in hit : TRUE).at
        opened == Put(acc.docs, name, <<>>)
    IN  IF ~outOK \/ (hit # {} /\ at = "open")
        THEN [acc EXCEPT !.log = @ \cup {LogError("document", name)}]
        ELSE IF hit # {}
        THEN [acc EXCEPT !.docs = opened,
                         !.done = @ + Len(file_list),
                         !.log = @ \cup {LogError("document", name)}]
        ELSE IF name \in acc.written
        THEN [acc EXCEPT !.done = @ + Len(file_list)]
        ELSE [acc EXCEPT !.docs = Put(opened, name,
                                      Header \o Blocks(file_list, 1, Len(file_list), opened)),
                         !.done = @ + Len(file_list),
                         !.written = @ \cup {name}]

\* "with open(target_path, 'w') as out: ..." for one document: the state acc
\* of the job after it, OSError handler included
WriteDocument(acc, name, file_list, faults) ==
    LET hit    == { x \in faults : x.name = name }
        at     == (CHOOSE x \in hit : TRUE).at
        opened == Put(acc.docs, name, <<>>)
    IN  IF ~outOK \/ (hit # {} /\ at = "open")
        THEN [acc EXCEPT !.log = @ \cup {LogError("document", name)}]
        ELSE IF hit # {}
        THEN [acc EXCEPT !.docs = opened,
                         !.done = @ + Len(file_list),
                         !.log = @ \cup {LogError("document", name)}]
        ELSE [acc EXCEPT !.docs = Put(opened, name,
                                      Header \o Blocks(file_list, 1, Len(file_list), opened)),
                         !.done = @ + Len(file_list),
                         !.written = @ \cup {name}]

\* a faulty variant: the first document that fails ends the loop
RECURSIVE WriteGroupsAbort(_, _, _, _)
WriteGroupsAbort(keys, files, faults, acc) ==
    IF keys = <<>> THEN acc
    ELSE LET next == WriteDocument(acc, make_group_filename(Head(keys)),
                                   SelectSeq(files, LAMBDA f : GroupKey(f) = Head(keys)),
                                   faults)
         IN  IF next.log # acc.log THEN next
             ELSE WriteGroupsAbort(Tail(keys), files, faults, next)

\* "for dir_key, file_list in groups.items()" over the keys left
RECURSIVE WriteGroups(_, _, _, _)
WriteGroups(keys, files, faults, acc) ==
    IF keys = <<>> THEN acc
    ELSE WriteGroups(Tail(keys), files, faults,
                     WriteDocument(acc, make_group_filename(Head(keys)),
                                   SelectSeq(files, LAMBDA f : GroupKey(f) = Head(keys)),
                                   faults))

NewJob == [docs |-> docs, done |-> 0, log |-> {}, written |-> {}]

\* the job record of a finished call
Report(mode, keys, acc, completed) ==
    [mode |-> mode, keys |-> keys, written |-> acc.written, log |-> acc.log,
     done |-> acc.done, completed |-> completed, before |-> docs]

\* history: the job repeats the one before it ("rerun" if both are without
\* a write error, "again" if not)
Rerun(op, faults) ==
    IF lastOp.op # op \/ job.mode = "none" THEN "none"
    ELSE IF lastOp.res = "completed" /\ job.log = {} /\ faults = {} THEN "rerun"
    ELSE "again"

\* start_export_grouped() as one job
ExportGroupedJob ==
    /\ stack = <<>>
    /\ IF ExportOutcome = "blocked"
       THEN /\ Did("start_export_grouped", 0, "blocked", "none")
            /\ UNCHANGED <<docs, job>>
       ELSE LET files == CollectSelectedFiles
                keys  == GroupKeys(files, {})
            IN  \E faults \in Faults({ make_group_filename(keys[i]) : i \in 1..Len(keys) }) :
                    \E acc \in {WriteGroups(keys, files, faults, NewJob)} :
                        /\ docs' = acc.docs
                        /\ job' = Report("grouped", keys, acc, TRUE)
                        /\ Did("start_export_grouped", 0, "completed",
                               Rerun("start_export_grouped", faults))
    /\ UNCHANGED <<diskVars, export_path, selVars, liveVars, stack>>

\* start_export_single(is_auto=False) as one job
ExportSingleJob ==
    /\ stack = <<>>
    /\ IF ExportOutcome = "blocked"
       THEN /\ Did("start_export_single", 0, "blocked", "none")
            /\ UNCHANGED <<docs, job>>
       ELSE LET files_sorted == SortedByRelPath(CollectSelectedFiles)
            IN  \E faults \in Faults({AllName}) :
                    \E acc \in {WriteDocument(NewJob, AllName, files_sorted, faults)} :
                        /\ docs' = acc.docs
                        /\ job' = Report("single", <<>>, acc, acc.log = {})
                        /\ Did("start_export_single", 0,
                               IF acc.log = {} THEN "completed" ELSE "failed",
                               Rerun("start_export_single", faults))
    /\ UNCHANGED <<diskVars, export_path, selVars, liveVars, stack>>

(***************************************************************************)
(* Live mode.                                                              *)
(***************************************************************************)
\* a faulty variant: the selection is not required
is_ready_without_selection ==
    project_path # "None" /\ export_path # "None"

\* is_ready_for_export()
is_ready_for_export ==
    project_path # "None" /\ export_path # "None" /\ selected_files > 0

\* setup_watchers(): QFileSystemWatcher.addPaths keeps the paths that exist
SetupWatchers ==
    LET files == CollectSelectedFiles
    IN  { AbsPath(files[i]) : i \in { j \in 1..Len(files) : files[j] \in exists } }

Saturating(n, cap) == IF n < cap THEN n + 1 ELSE cap

\* no notification yet in this live session
NewSession == [pending |-> FALSE, since |-> DebounceInterval]

\* a faulty variant: a failed export ends live mode and drops the watcher
run_auto_export_stopping(w) ==
    /\ begin_export("single", TRUE)
    /\ is_auto_running' = (ExportOutcome # "failed")
    /\ watcher' = IF ExportOutcome = "failed" THEN {} ELSE w

\* run_auto_export_task() once is_auto_running is known to be set, w being
\* the watcher's files: start_export_single(is_auto=True) changes neither
\* the flag nor the watcher, whether it returns early, fails or succeeds
run_auto_export_task(w) ==
    /\ begin_export("single", TRUE)
    /\ is_auto_running' = TRUE
    /\ watcher' = w

\* toggle_auto_mode(True)
ToggleAutoOn ==
    /\ EventsEnabled
    /\ ~is_auto_running
    /\ Len(stack) < MaxDepth
    /\ UNCHANGED <<outVars, fs, outOK, export_path, selVars, debounce_timer>>
    /\ IF ~is_ready_for_export
       THEN /\ Did("toggle_auto_mode", 1, "rejected", "none")
            /\ UNCHANGED <<is_auto_running, watcher, gone, burst, stack, exists>>
       ELSE /\ gone' = {}
            /\ burst' = NewSession
            /\ run_auto_export_task(SetupWatchers)
            /\ Did("toggle_auto_mode", 1, "activated", ExportOutcome)

\* toggle_auto_mode(False)
ToggleAutoOff ==
    /\ EventsEnabled
    /\ is_auto_running
    /\ is_auto_running' = FALSE
    /\ watcher' = {}
    /\ gone' = {}
    /\ Did("toggle_auto_mode", 0, "stopped", "none")
    /\ UNCHANGED <<outVars, diskVars, export_path, selVars, debounce_timer, burst, stack>>

\* a faulty variant: the path is compared as it was reported
IsOutputDocumentRaw(path) == path = normpath(TargetPath)

\* on_fs_changed: changed_full == target_full
IsOutputDocument(path) == normpath(path) = normpath(TargetPath)

\* on_fs_changed(path), w being self.watcher.files() when the slot runs; the
\* history keeps the file of a path that the watcher had dropped
on_fs_changed(path, w) ==
    IF ~is_auto_running
    THEN /\ Did("on_fs_changed", 0, "idle", "none")
         /\ watcher' = w
         /\ UNCHANGED <<debounce_timer, burst>>
    ELSE IF IsOutputDocument(path)
    THEN /\ Did("on_fs_changed", 0, "self", "none")
         /\ watcher' = w
         /\ UNCHANGED <<debounce_timer, burst>>
    ELSE /\ watcher' = IF PathExists(normpath(path))
                          /\ normpath(path) \notin { normpath(q) : q \in w }
                       THEN w \cup {normpath(path)}
                       ELSE w
         /\ debounce_timer' = DebounceInterval
         /\ burst' = [pending |-> TRUE, since |-> 0]
         /\ Did("on_fs_changed", IF path \in w THEN 0 ELSE path.id, "armed",
                IF lastOp.op = "timeout" /\ lastOp.exp = "failed"
                THEN "after_failed" ELSE "none")

\* fileChanged(path) for a watched file that was modified
FsChangedAt(path) ==
    /\ EventsEnabled
    /\ path.id \in exists
    /\ path.id \notin gone
    /\ on_fs_changed(path, watcher)
    /\ UNCHANGED <<outVars, diskVars, export_path, selVars, is_auto_running, gone, stack>>

FsChanged == \E path \in watcher : FsChangedAt(path)

\* fileChanged(path) for a watched file that was removed: the watcher has
\* dropped the path when the slot runs
FsRemovedAt(path) ==
    /\ EventsEnabled
    /\ path.id \in gone
    /\ gone' = gone \ {path.id}
    /\ on_fs_changed(path, watcher \ {path})
    /\ UNCHANGED <<outVars, diskVars, export_path, selVars, is_auto_running, stack>>

FsRemoved == \E path \in watcher : FsRemovedAt(path)

\* run_auto_export_task() called by debounce_timer.timeout
TimerFire ==
    /\ EventsEnabled
    /\ debounce_timer = 0
    /\ Len(stack) < MaxDepth
    /\ debounce_timer' = -1
    /\ UNCHANGED <<outVars, fs, outOK, export_path, selVars, gone>>
    /\ IF ~is_auto_running
       THEN /\ Did("timeout", 0, "idle", "none")
            /\ UNCHANGED <<is_auto_running, watcher, stack, exists, burst>>
       ELSE /\ run_auto_export_task(watcher)
            /\ burst' = IF ExportOutcome = "blocked" THEN burst
                        ELSE [burst EXCEPT !.pending = FALSE]
            /\ Did("timeout", 0,
                   IF ~burst.pending THEN "stale"
                   ELSE IF burst.since < DebounceInterval THEN "early"
                   ELSE "fresh",
                   ExportOutcome)

(***************************************************************************)
(* The environment: time and the disk.                                     *)
(***************************************************************************)
\* 250 ms pass; a timer that is due fires before more time passes
Tick ==
    /\ debounce_timer # 0
    /\ debounce_timer' = IF debounce_timer > 0 THEN debounce_timer - 1 ELSE debounce_timer
    /\ burst' = [burst EXCEPT !.since = Saturating(burst.since, DebounceInterval)]
    /\ UNCHANGED <<outVars, diskVars, export_path, selVars, is_auto_running, watcher, gone,
                   stack, lastOp>>

\* a file is removed from the disk (or renamed away)
DeleteFile ==
    \E f \in Files \cap exists :
        /\ Cardinality(Files \ exists) < MaxMissing
        /\ exists' = exists \ {f}
        /\ gone' = IF \E q \in watcher : q.id = f THEN gone \cup {f} ELSE gone
        /\ UNCHANGED <<outVars, fs, outOK, export_path, selVars, is_auto_running, watcher,
                       debounce_timer, burst, stack, lastOp>>

\* a file is created again at its old path
CreateFile ==
    \E f \in Files \ exists :
        /\ exists' = exists \cup {f}
        /\ UNCHANGED <<outVars, fs, outOK, export_path, selVars, liveVars, stack, lastOp>>

\* the output directory becomes unwritable, or writable again
SetWritable ==
    /\ outOK' = ~outOK
    /\ UNCHANGED <<outVars, fs, exists, export_path, selVars, liveVars, stack, lastOp>>

(***************************************************************************)
(* Specifications.                                                         *)
(***************************************************************************)
InitCommon ==
    /\ exists = Nodes
    /\ outOK = TRUE
    /\ project_path = "None"
    /\ export_path = "None"
    /\ tree = {}
    /\ checkState = [ n \in Nodes |-> "Unchecked" ]
    /\ selected_files = 0
    /\ selected_groups_count = 0
    /\ is_auto_running = FALSE
    /\ watcher = {}
    /\ gone = {}
    /\ debounce_timer = -1
    /\ stack = <<>>
    /\ burst = NewSession
    /\ lastOp = [op |-> "init", item |-> 0, res |-> "", exp |-> "none"]
    /\ docs = NoDocs
    /\ job = NoJob

\* the selection tree alone, over every directory tree of at most MaxNodes
\* entries
InitSel ==
    /\ fs \in Shapes
    /\ InitCommon

NextSel ==
    \/ ChooseProject
    \/ OnItemChanged

SpecSel == InitSel /\ [][NextSel]_vars

\* the trees of n entries with any set of unreadable directories and, or
\* not, a top-level directory named like the display text of the root group
ScanShapesOf(n) ==
    UNION { { [s EXCEPT !.locked = L, !.sent = k] :
                L \in SUBSET { d \in 1..n : s.isDir[d] },
                k \in {0} \cup { d \in 2..n : s.isDir[d] /\ s.parent[d] = Root } } :
            s \in ShapesOf(n) }

ScanShapes == UNION { ScanShapesOf(n) : n \in 1..MaxScanNodes }

\* scanning and selecting over these trees
InitScan ==
    /\ fs \in ScanShapes
    /\ InitCommon

SpecScan == InitScan /\ [][NextSel]_vars

\* the project of the whole program: proj/proj_all.txt, proj/sub/b.py
\* what _read_file_safe can find in a file: text without a marker line, text
\* with one, a null byte in the first 2048 bytes, or an OSError on reading
Kinds == {"text", "marker", "binary", "unreadable"}

KindMaps(s) ==
    { k \in [1..s.n -> Kinds] :
        /\ \A d \in 1..s.n : s.isDir[d] => k[d] = "text"
        /\ \A f, g \in 1..s.n : (k[f] # "text" /\ k[g] # "text") => f = g }

DocShapes ==
    UNION { UNION { { [s EXCEPT !.kind = k] : k \in KindMaps(s) } : s \in ShapesOf(n) } :
            n \in 1..MaxDocNodes }

\* selecting and exporting over trees in which one file at most is not
\* plain text; a behaviour is followed until its first job has run
InitDoc ==
    /\ fs \in DocShapes
    /\ InitCommon

NoJobYet == job.mode = "none"

NextDoc ==
    \/ NoJobYet /\ ChooseProject
    \/ NoJobYet /\ ChooseExportPath
    \/ NoJobYet /\ OnItemChanged
    \/ NoJobYet /\ ExportGroupedJob
    \/ NoJobYet /\ ExportSingleJob

SpecDoc == InitDoc /\ [][NextDoc]_vars

\* the pairs of directories whose group file names can coincide: the root
\* and a directory called like it, or two directories whose relative paths
\* are cleaned to the same name ("a/b" and "a-b", "a b!" and "a b?")
MergeSets(s) ==
    {{}} \cup { m \in SUBSET { x \in 1..s.n : s.isDir[x] } : Cardinality(m) = 2 }

\* the trees with one cause of a shared group file name
GroupShapes ==
    UNION { UNION { { [s EXCEPT !.sent = k] :
                        k \in { d \in 2..s.n : s.isDir[d] /\ s.parent[d] = Root } }
                    \cup { [s EXCEPT !.merge = m] : m \in MergeSets(s) \ {{}} } :
                    s \in ShapesOf(n) } :
            n \in 1..MaxDocNodes }

\* selecting and exporting over trees of text files whose directories can
\* share a group file name
InitGroup ==
    /\ fs \in GroupShapes
    /\ InitCommon

SpecGroup == InitGroup /\ [][NextDoc]_vars

\* the tree of a root that holds one file and k directories of one file each
Star(k) ==
    [n |-> 2 + 2 * k,
     parent |-> [ x \in 1..(2 + 2 * k) |->
                    IF x = 1 THEN 0 ELSE IF x <= 2 + k THEN 1 ELSE x - k ],
     isDir |-> [ x \in 1..(2 + 2 * k) |-> x = 1 \/ (3 <= x /\ x <= 2 + k) ],
     sent |-> 0, all |-> 0, locked |-> {},
     kind |-> [ x \in 1..(2 + 2 * k) |-> "text" ], merge |-> {},
     sub |-> 0, grp |-> 0]

\* the stars of at most MaxDirs directories with one cause of a shared group
\* file name: beside the groups that share it there can be one that does not
StarShapes ==
    UNION { { [Star(k) EXCEPT !.sent = d] : d \in 3..(2 + k) }
            \cup { [Star(k) EXCEPT !.merge = m] : m \in MergeSets(Star(k)) \ {{}} } :
            k \in 1..MaxDirs }

InitCollide ==
    /\ fs \in StarShapes
    /\ InitCommon

SpecCollide == InitCollide /\ [][NextDoc]_vars

\* the trees in which a file of the root is called <root name>_all.txt, or
\* a file of a subdirectory is called <root name>.txt, or both: documents
\* of an earlier export into the root or into that subdirectory
RerunShapes ==
    UNION { UNION { { [s EXCEPT !.all = a, !.sub = d, !.grp = g] :
                        a \in {0} \cup { f \in 2..s.n : ~s.isDir[f] /\ s.parent[f] = Root },
                        d \in { x \in 2..s.n : s.isDir[x] },
                        g \in { f \in 2..s.n : ~s.isDir[f] /\ s.parent[f] # Root } } :
                    s \in ShapesOf(n) } :
            n \in 1..MaxDocNodes }

\* the trees of RerunShapes in which the file grp is in the directory sub
InitRerun ==
    /\ fs \in { s \in RerunShapes : s.parent[s.grp] = s.sub }
    /\ InitCommon

\* the job before was the first one and can be repeated
Repeatable(op) == lastOp.op = op /\ lastOp.exp = "none"

\* a behaviour is followed until its first job has been repeated once
NextRerun ==
    \/ NoJobYet /\ ChooseProject
    \/ NoJobYet /\ ChooseExportPath
    \/ NoJobYet /\ OnItemChanged
    \/ NoJobYet /\ ExportGroupedJob
    \/ NoJobYet /\ ExportSingleJob
    \/ ~NoJobYet /\ Repeatable("start_export_grouped") /\ ExportGroupedJob
    \/ ~NoJobYet /\ Repeatable("start_export_single") /\ ExportSingleJob

SpecRerun == InitRerun /\ [][NextRerun]_vars

ProjectFs ==
    [n      |-> 4,
     parent |-> <<0, 1, 1, 3>>,
     isDir  |-> <<TRUE, FALSE, TRUE, FALSE>>,
     sent   |-> 0,
     all    |-> 2,
     locked |-> {},
     kind   |-> <<"text", "text", "text", "text">>,
     merge  |-> {},
     sub    |-> 0,
     grp    |-> 0]

Init ==
    /\ fs = ProjectFs
    /\ InitCommon

Next ==
    \/ ChooseProject
    \/ ChooseExportPath
    \/ OnItemChanged
    \/ StartExportGrouped
    \/ StartExportSingle
    \/ ExportStep
    \/ ToggleAutoOn
    \/ ToggleAutoOff
    \/ FsChanged
    \/ FsRemoved
    \/ TimerFire
    \/ Tick
    \/ DeleteFile
    \/ CreateFile
    \/ SetWritable

Spec == Init /\ [][Next]_vars

\* the same controller under the scheduling of the Qt event loop: time
\* passes, the write loop of a running export comes to its end, and a
\* debounce timer that is due fires in the event loop or in the
\* processEvents() of an export, however deep the exports are nested
SpecLive ==
    /\ Init /\ [][Next]_vars
    /\ WF_vars(Tick)
    /\ WF_vars(ExportStep)
    /\ SF_vars(TimerFire)

(***************************************************************************)
(* Claims about the selection tree.                                        *)
(***************************************************************************)
AllKids(dir, state) ==
    \A c \in tree : fs.parent[c] = dir => checkState[c] = state

\* the tri-state rule of the data model, read for one directory
FoldRule(dir) ==
    /\ checkState[dir] = "Checked" <=> AllKids(dir, "Checked")
    /\ checkState[dir] = "Unchecked" <=> AllKids(dir, "Unchecked")

AfterToggle == lastOp.op = "on_item_changed"

\* C1 (as stated): after any sequence of toggles every directory, whatever
\* its number of children, is Checked iff all its children are Checked,
\* Unchecked iff all its children are Unchecked, and Partial otherwise.
C1_EveryDirIsFold ==
    AfterToggle => \A d \in tree : fs.isDir[d] => FoldRule(d)

\* C1 (amended): after any sequence of toggles every directory that has at
\* least one child is Checked iff all its children are Checked, Unchecked
\* iff all its children are Unchecked, and Partial otherwise.
C1_NonEmptyDirIsFold ==
    AfterToggle =>
        \A d \in tree : (fs.isDir[d] /\ childCount(tree, d) > 0) => FoldRule(d)

\* a Partial directory below a Partial directory, next to an Unchecked leaf
C1_Witness ==
    /\ AfterToggle
    /\ \E d \in tree, e \in tree :
          /\ fs.parent[e] = d
          /\ childCount(tree, e) > 1
          /\ checkState[d] = "PartiallyChecked"
          /\ checkState[e] = "PartiallyChecked"
          /\ AllKids(d, "PartiallyChecked")

RoundTripDone ==
    /\ lastOp.op = "on_item_changed"
    /\ lastOp.item = Root
    /\ lastOp.res = "Unchecked"
    /\ lastOp.exp = "after_root_checked"

\* C9: toggling the root to Checked and then immediately to Unchecked leaves
\* every node Unchecked and both selection counts at 0.
C9_RootRoundTrip ==
    RoundTripDone =>
        /\ \A n \in tree : checkState[n] = "Unchecked"
        /\ selected_files = 0
        /\ selected_groups_count = 0

\* the round trip was made on a tree with a file two levels below the root
C9_Witness ==
    /\ RoundTripDone
    /\ \E f \in tree : ~fs.isDir[f] /\ fs.parent[f] # Root

\* C10: the stored selected_files equals the number of File nodes that are
\* exactly Checked and the length of _collect_selected_files().
C10_SelectedCount ==
    /\ selected_files =
          Cardinality({ f \in tree : ~fs.isDir[f] /\ checkState[f] = "Checked" })
    /\ selected_files = Len(CollectSelectedFiles)

\* files are selected while one directory is Checked and another is Partial
C10_Witness ==
    /\ selected_files >= 2
    /\ \E d \in tree : fs.isDir[d] /\ d # Root /\ checkState[d] = "Checked"
    /\ checkState[Root] = "PartiallyChecked"

(***************************************************************************)
(* Claims about exports and live mode.                                     *)
(***************************************************************************)
\* the File nodes of the tree that are exactly Checked
CheckedFiles == { f \in tree : ~fs.isDir[f] /\ checkState[f] = "Checked" }

\* a timer-driven re-export was attempted by the handler that ran last
ReexportRan == lastOp.op = "timeout" /\ lastOp.exp \in {"started", "failed"}

\* C2: while Live, the notifications of one burst (gaps shorter than the
\* debounce window) produce exactly one re-export, which fires only after a
\* full window without a notification: a burst that has not been re-exported
\* has the timer armed, and a re-export runs only for a pending burst whose
\* last notification is a full window old.
C2_Debounce ==
    /\ (is_auto_running /\ burst.pending) => debounce_timer >= 0
    /\ ReexportRan => lastOp.res = "fresh"

\* C3: in every reachable state at most one export is in progress.
C3_OneExportAtATime == Len(stack) <= 1

\* path is the Single-mode output document <outputDirectory>/<rootName>_all.txt
IsTargetFile(path) == export_path = "proj" /\ fs.all # 0 /\ path.id = fs.all

\* C4: a notification whose normalized path is the Single-mode output
\* document never arms or restarts the debounce timer and never starts an
\* export, also when that document is a selected and watched file.
C4_SelfLoopDiscarded ==
    [][ \A path \in watcher :
          (IsTargetFile(path) /\ is_auto_running
             /\ (FsChangedAt(path) \/ FsRemovedAt(path)))
          => UNCHANGED <<debounce_timer, stack, burst>> ]_vars

\* the output document is Checked and watched, and its notification was dropped
C4_Witness ==
    /\ is_auto_running
    /\ lastOp.op = "on_fs_changed"
    /\ lastOp.res = "self"
    /\ fs.all \in CheckedFiles
    /\ \E path \in watcher : IsTargetFile(path)

\* C5: on the Live -> Idle transition an armed debounce timer is cancelled,
\* and a notification received before deactivation never leads to an export
\* afterwards: the timer is inactive whenever the controller is Idle, and no
\* re-export runs in a session that has received no notification.
C5_TimerCancelled ==
    /\ ~is_auto_running => debounce_timer = -1
    /\ ~(ReexportRan /\ lastOp.res = "stale")

\* C6: the watcher's path set is the set of paths of the Checked files while
\* live mode is active, and empty while it is inactive.
C6_WatcherIsSelection ==
    { path.id : path \in watcher } = IF is_auto_running THEN CheckedFiles ELSE {}

\* a root is chosen, an output directory is chosen, a file is selected
AllThreeChosen ==
    project_path # "None" /\ export_path # "None" /\ CheckedFiles # {}

\* C7: the controller enters Live only when a root is chosen, an output
\* directory is chosen and at least one file is selected; an activation
\* request made when one of them is missing leaves it Idle, adds no
\* subscription and runs no export.
C7_ActivationNeedsAllThree ==
    [][ /\ (~is_auto_running /\ is_auto_running') => AllThreeChosen
        /\ (ToggleAutoOn /\ ~AllThreeChosen)
              => UNCHANGED <<is_auto_running, watcher, stack, exists>> ]_vars

\* an activation was rejected with root and output directory chosen
C7_Witness ==
    /\ lastOp.op = "toggle_auto_mode"
    /\ lastOp.res = "rejected"
    /\ project_path # "None"
    /\ export_path # "None"
    /\ ~is_auto_running
    /\ watcher = {}

\* the innermost export was called with is_auto=True
AutoExportOnTop == IF stack = <<>> THEN FALSE ELSE Top.auto

\* C8: a re-export that fails while Live (on opening the document or while
\* writing it) leaves the controller Live with its subscriptions; a later
\* notification for a watched path arms the timer again; only the user's
\* deactivation returns the controller to Idle.
C8_FailedReexportStaysLive ==
    [][ /\ (TimerFire /\ is_auto_running /\ ExportOutcome = "failed")
              => (is_auto_running' /\ watcher' = watcher)
        /\ (ExportStep /\ AutoExportOnTop /\ is_auto_running)
              => (is_auto_running' /\ watcher' = watcher)
        /\ \A path \in watcher :
              (is_auto_running /\ ~IsTargetFile(path) /\ FsChangedAt(path))
              => debounce_timer' = DebounceInterval
        /\ (is_auto_running /\ ~is_auto_running') => ToggleAutoOff ]_vars

\* still Live after a failed re-export, a notification armed the timer
C8_Witness ==
    /\ is_auto_running
    /\ lastOp.op = "on_fs_changed"
    /\ lastOp.res = "armed"
    /\ lastOp.exp = "after_failed"
    /\ debounce_timer = DebounceInterval
    /\ watcher # {}

(***************************************************************************)
(* Claims about scanning.                                                  *)
(***************************************************************************)
\* C18: whenever the root directory is (re)chosen the tree is rebuilt with
\* every node Unchecked and both selection counts 0, whatever was selected
\* before.
C18_RescanResetsSelection ==
    lastOp.op = "choose_project" =>
        /\ \A n \in tree : checkState[n] = "Unchecked"
        /\ selected_files = 0
        /\ selected_groups_count = 0

\* the root was chosen again over a tree that had Checked or Partial nodes
C18_Witness ==
    /\ lastOp.op = "choose_project"
    /\ lastOp.exp = "had_selection"
    /\ \E f \in tree : ~fs.isDir[f]

\* C20: on every Idle -> Live transition the controller subscribes to
\* exactly the absolute paths of the currently Checked files and runs one
\* Single-mode export at once, inside the activation itself.
C20_ActivationSubscribesSelection ==
    (lastOp.op = "toggle_auto_mode" /\ lastOp.res = "activated") =>
        /\ watcher = { AbsPath(f) : f \in CheckedFiles }
        /\ lastOp.exp \in {"started", "failed"}

\* every directory above the entry c can be read
RECURSIVE Visible(_)
Visible(c) ==
    IF c = Root THEN TRUE
    ELSE fs.parent[c] \notin fs.locked /\ Visible(fs.parent[c])

\* the scan of an unreadable root fails: no tree, nothing reported as loaded
RootScanFails ==
    Root \in fs.locked =>
        (tree = {} /\ lastOp.res \notin {"loaded", "loaded_with_warnings"})

\* an unreadable subdirectory is warned about and left without children,
\* and every entry not below an unreadable directory is in the tree
SubdirScanContinues ==
    /\ \A d \in tree \ {Root} :
          d \in fs.locked =>
              (childCount(tree, d) = 0 /\ lastOp.res = "loaded_with_warnings")
    /\ \A c \in Nodes : (Root \notin fs.locked /\ Visible(c)) => c \in tree

\* C19: scanning an unreadable root fails and loads no tree; an unreadable
\* subdirectory gives a warning, is left without children, and the scan
\* goes on with its siblings.
C19_UnreadableDirectories ==
    lastOp.op = "choose_project" => (RootScanFails /\ SubdirScanContinues)

(***************************************************************************)
(* Claims about groups and documents.                                      *)
(***************************************************************************)
\* the parent directories of the Checked files
SelectedDirs == { fs.parent[f] : f \in CheckedFiles }

\* C11: the group count shown for a selection is the number of distinct
\* parent directories of its Checked files, whatever the directories are
\* called, and it is the number of groups that start_export_grouped forms
\* for that selection.
C11_GroupCountIsDirectories ==
    project_path # "None" =>
        /\ selected_groups_count = Cardinality(SelectedDirs)
        /\ selected_groups_count = Len(GroupKeys(CollectSelectedFiles, {}))

\* the text of a document after its header
Body(text) == SubSeq(text, Len(Header) + 1, Len(text))

MarkerCount(text) == Cardinality({ i \in DOMAIN text : text[i] = FILE_SEPARATOR })

\* the first piece of every segment that splitting text[i..] on the marker
\* yields; start says that a segment begins at i
RECURSIVE SegmentHeads(_, _, _)
SegmentHeads(text, i, start) ==
    IF i > Len(text) THEN (IF start THEN <<Tok("nothing", 0)>> ELSE <<>>)
    ELSE IF text[i] = FILE_SEPARATOR
         THEN (IF start THEN <<Tok("nothing", 0)>> ELSE <<>>)
              \o SegmentHeads(text, i + 1, TRUE)
    ELSE (IF start THEN <<text[i]>> ELSE <<>>) \o SegmentHeads(text, i + 1, FALSE)

\* the selected files that belong in the document called name
DocFiles(name) ==
    IF job.mode = "single" THEN CheckedFiles
    ELSE { f \in CheckedFiles : make_group_filename(GroupKey(f)) = name }

\* the files named by a sequence of pieces
FilesOf(heads) == { heads[i].f : i \in DOMAIN heads }

\* C12: in every document a job wrote, the body holds the marker exactly
\* fileCount - 1 times and not at its end, and splitting the body on the
\* marker yields fileCount segments, each beginning with the path of one
\* file of the document.
C12_MarkerSeparatesFiles ==
    \A r \in docs :
        r.name \in job.written =>
            LET body  == Body(r.text)
                heads == SegmentHeads(body, 1, TRUE)
                count == Cardinality(DocFiles(r.name))
            IN  /\ MarkerCount(body) = count - 1
                /\ body[Len(body)] # FILE_SEPARATOR
                /\ Len(heads) = count
                /\ \A i \in DOMAIN heads : heads[i].t = "path"
                /\ FilesOf(heads) = DocFiles(r.name)

\* the path lines of a text, in the order they are written
PathsIn(text) == SelectSeq(text, LAMBDA x : x.t = "path")

\* the pieces that follow position i of a text begin with the content of f
ContentFollows(text, i, f) ==
    LET c == read_file_safe(f, docs)
    IN  /\ i + Len(c) <= Len(text)
        /\ SubSeq(text, i + 1, i + Len(c)) = c

SingleExportDone ==
    lastOp.op = "start_export_single" /\ lastOp.res = "completed"

\* C13: a completed Single export has written one document and no other,
\* <root name>_all.txt, holding one block (path, then content) for each
\* Checked file, none twice and none else, in ascending order of relative
\* path.
C13_SingleDocumentSorted ==
    SingleExportDone =>
        /\ job.written = {AllName}
        /\ HasDoc(docs, AllName)
        /\ { r \in docs : r.name # AllName } = { r \in job.before : r.name # AllName }
        /\ LET text  == DocText(docs, AllName)
               paths == PathsIn(text)
           IN  /\ Len(paths) = Cardinality(CheckedFiles)
               /\ FilesOf(paths) = CheckedFiles
               /\ \A i, j \in DOMAIN paths : i < j => RelLess(paths[i].f, paths[j].f)
               /\ \A i \in DOMAIN text :
                     text[i].t = "path" => ContentFollows(text, i, text[i].f)

\* a Single export of files that the tree lists in another order than their
\* relative paths
C13_Witness ==
    /\ SingleExportDone
    /\ CollectSelectedFiles # SortedByRelPath(CollectSelectedFiles)

GroupedExportDone ==
    /\ lastOp.op = "start_export_grouped" /\ lastOp.res = "completed"
    /\ job.log = {}

\* how often the path of f is written in the document called name
Occurrences(f, name) ==
    IF HasDoc(docs, name)
    THEN Cardinality({ i \in DOMAIN DocText(docs, name) :
                         DocText(docs, name)[i] = Tok("path", f) })
    ELSE 0

\* the file names the job was to write
JobNames == { make_group_filename(job.keys[i]) : i \in DOMAIN job.keys }

\* the group written last among the groups that share the file name of the
\* group key
LastWithName(key) ==
    job.keys[CHOOSE i \in DOMAIN job.keys :
                /\ make_group_filename(job.keys[i]) = make_group_filename(key)
                /\ \A j \in DOMAIN job.keys :
                      make_group_filename(job.keys[j]) = make_group_filename(key) => j <= i]

\* C14 as stated: after a Grouped export without write error there is one
\* document per distinct group key, and the block of every Checked file is
\* written once over all documents, in the document of its own group.
C14_OneDocumentPerKey ==
    GroupedExportDone =>
        /\ Cardinality({ r.name : r \in docs }) = Cardinality({ GroupKey(f) : f \in CheckedFiles })
        /\ \A f \in CheckedFiles :
              \A r \in docs :
                  Occurrences(f, r.name)
                      = IF r.name = make_group_filename(GroupKey(f)) THEN 1 ELSE 0

\* C14: after a Grouped export without write error there is one document
\* per distinct file name of the group keys; the block of a Checked file is
\* written once, in the document of its group, if no later group has the
\* same file name, and is in no document otherwise.
C14_OneDocumentPerFileName ==
    GroupedExportDone =>
        /\ { r.name : r \in docs } = JobNames
        /\ job.written = JobNames
        /\ { job.keys[i] : i \in DOMAIN job.keys } = { GroupKey(f) : f \in CheckedFiles }
        /\ \A f \in CheckedFiles :
              \A r \in docs :
                  Occurrences(f, r.name)
                      = IF /\ r.name = make_group_filename(GroupKey(f))
                           /\ LastWithName(GroupKey(f)) = GroupKey(f)
                        THEN 1 ELSE 0

\* a Grouped export of two groups that share a file name has completed
C14_Witness ==
    /\ GroupedExportDone
    /\ Cardinality(JobNames) < Len(job.keys)

\* C15: an export that repeats the export before it (same mode, selection
\* and output directory, no source file touched, no write error) leaves
\* every document as the first export left it.
C15_RerunKeepsDocuments ==
    lastOp.exp = "rerun" => docs = job.before

\* the Checked files whose reading raises OSError
UnreadableFiles == { f \in CheckedFiles : fs.kind[f] = "unreadable" }

\* the block of f is in the document of f: its path, then its content
BlockWritten(f) ==
    LET name == IF job.mode = "single" THEN AllName ELSE make_group_filename(GroupKey(f))
    IN  /\ HasDoc(docs, name)
        /\ \E i \in DOMAIN DocText(docs, name) :
              /\ DocText(docs, name)[i] = Tok("path", f)
              /\ ContentFollows(DocText(docs, name), i, f)

\* the block of an unreadable file holds the placeholder with the error, and
\* the job goes on: every Checked file has its block and the job completes
ReadErrorTolerated ==
    /\ \A f \in CheckedFiles : BlockWritten(f)
    /\ \A f \in UnreadableFiles : read_file_safe(f, docs) = <<Tok("error", f)>>
    /\ job.completed

\* the job logged or reported the read error of each unreadable file
ReadErrorReported ==
    \A f \in UnreadableFiles : LogError("file", f) \in job.log

\* C16: after a job without write error that met a file whose reading
\* fails, the file's block holds a placeholder embedding the error, the
\* error is recorded for that file, and all other files were exported.
C16_ReadErrorRecorded ==
    (/\ job.mode # "none"
     /\ \A e \in job.log : e.about # "document"
     /\ UnreadableFiles # {}) =>
        (ReadErrorTolerated /\ ReadErrorReported)

\* the job logged that the document called name could not be written
WriteFailed(name) == LogError("document", name) \in job.log

\* C17: when a document cannot be opened or written, a Grouped export
\* abandons that document and still writes the document of every other
\* group; a Single export reports the failure and ends without reporting
\* completion.
C17_WriteErrorHandling ==
    (job.mode # "none" /\ \E e \in job.log : e.about = "document") =>
        IF job.mode = "grouped"
        THEN /\ \A name \in JobNames : WriteFailed(name) => name \notin job.written
             /\ \A name \in JobNames :
                   ~WriteFailed(name) =>
                       /\ name \in job.written
                       /\ \A f \in DocFiles(name) : BlockWritten(f)
        ELSE /\ job.log = {LogError("document", AllName)}
             /\ job.written = {}
             /\ ~job.completed
             /\ lastOp.res = "failed"

\* a Grouped export whose first document failed and that had another group
\* to write
C17_Witness ==
    /\ job.mode = "grouped"
    /\ Len(job.keys) >= 2
    /\ WriteFailed(make_group_filename(job.keys[1]))

(***************************************************************************)
(* Claims about live mode, continued.                                      *)
(***************************************************************************)
\* the subscribed paths in normal form
Subscribed == { normpath(q) : q \in watcher }

\* the handler that ran last is on_fs_changed for the removal of a watched
\* file, and it started the debounce timer
RemovalHandled ==
    /\ is_auto_running
    /\ lastOp.op = "on_fs_changed" /\ lastOp.res = "armed"
    /\ lastOp.item # 0

\* C21: while Live, once the notification for a deleted watched file is
\* handled, the file is subscribed whenever it is on disk again, whether it
\* was created again before the notification was delivered or after it.
C21_RecreatedFileSubscribed ==
    (RemovalHandled /\ lastOp.item \in exists) =>
        normpath(AbsPath(lastOp.item)) \in Subscribed

(***************************************************************************)
(* Claims about the selection tree, continued.                             *)
(***************************************************************************)
\* C22: on_item_changed for a node that already has the state it is set to
\* changes the check state of no node and neither selection count.
C22_ToggleIdempotent ==
    [][ (lastOp'.op = "on_item_changed" /\ lastOp'.item \in tree
           /\ checkState[lastOp'.item] = lastOp'.res)
        => UNCHANGED <<checkState, selected_files, selected_groups_count>> ]_vars

\* the Checked root, holding Checked files, was set to Checked again
C22_Witness ==
    /\ lastOp.op = "on_item_changed" /\ lastOp.exp = "repeat"
    /\ lastOp.res = "Checked"
    /\ fs.isDir[lastOp.item]
    /\ selected_files > 0

\* C23: the check state of a file is Checked or Unchecked, never
\* PartiallyChecked; only directories are PartiallyChecked.
C23_FilesNeverPartial ==
    \A n \in tree : checkState[n] = "PartiallyChecked" => fs.isDir[n]

\* after a toggle a directory is PartiallyChecked above a Checked and an
\* Unchecked file
C23_Witness ==
    /\ lastOp.op = "on_item_changed"
    /\ \E d \in tree : checkState[d] = "PartiallyChecked"
    /\ \E f, g \in tree : /\ ~fs.isDir[f] /\ ~fs.isDir[g]
                          /\ checkState[f] = "Checked" /\ checkState[g] = "Unchecked"

\* a call of an exporter: a button or a shortcut, the job, or the debounce
\* timer while Live
ExportRequested ==
    \/ StartExportGrouped
    \/ StartExportSingle
    \/ ExportGroupedJob
    \/ ExportSingleJob
    \/ (is_auto_running /\ TimerFire)

\* C24: an export request (Grouped or Single, manual or automatic) made when
\* no root is chosen, no output directory is chosen or no file is selected
\* creates or overwrites no file, starts no job and changes neither the
\* selection nor the subscriptions; it only reports that it was blocked.
C24_BlockedExportChangesNothing ==
    [][ (/\ lastOp'.op \in {"start_export_grouped", "start_export_single", "timeout"}
         /\ ExportOutcome = "blocked"
         /\ ExportRequested)
        => /\ UNCHANGED <<exists, docs, job, stack>>
           /\ UNCHANGED <<project_path, export_path, selVars>>
           /\ UNCHANGED <<is_auto_running, watcher, gone, burst>>
           /\ "blocked" \in {lastOp'.res, lastOp'.exp} ]_vars

\* the debounce timer asked for an export while Live and nothing was selected
C24_Witness ==
    /\ is_auto_running
    /\ lastOp.op = "timeout"
    /\ lastOp.exp = "blocked"
    /\ project_path # "None"
    /\ export_path # "None"
    /\ CollectSelectedFiles = <<>>

\* the document start_export_grouped writes for the group key
GroupDocument(key) ==
    LET file_list == SelectSeq(CollectSelectedFiles, LAMBDA f : GroupKey(f) = key)
    IN  Header \o Blocks(file_list, 1, Len(file_list), docs)

\* the group keys of the job that share their file name with another key
Colliding ==
    { k \in { job.keys[i] : i \in DOMAIN job.keys } :
        \E j \in DOMAIN job.keys :
            job.keys[j] # k /\ make_group_filename(job.keys[j]) = make_group_filename(k) }

\* C25: a Grouped export in which group keys share a file name runs to its
\* end; every file it wrote holds exactly the document of the last group, in
\* traversal order, that has this file name, so a file written for one group
\* only holds the document of that group, and without a write error every
\* file name of the job is written.
C25_LastWriteWins ==
    (lastOp.op = "start_export_grouped" /\ lastOp.res = "completed") =>
        /\ job.completed
        /\ job.log = {} => job.written = JobNames
        /\ \A i \in DOMAIN job.keys :
              make_group_filename(job.keys[i]) \in job.written =>
                  /\ HasDoc(docs, make_group_filename(job.keys[i]))
                  /\ DocText(docs, make_group_filename(job.keys[i]))
                        = GroupDocument(LastWithName(job.keys[i]))

\* a Grouped export of two groups that share a file name and of a third group
\* with a file name of its own has written both files
C25_Witness ==
    /\ lastOp.op = "start_export_grouped" /\ lastOp.res = "completed"
    /\ Cardinality(Colliding) = 2
    /\ \E i \in DOMAIN job.keys : job.keys[i] \notin Colliding
    /\ job.written = JobNames

\* "TXT файлов: {len(groups)}" of the final message of start_export_grouped
ReportedDocuments == Len(job.keys)

\* "файлов внутри: {done_files}" of the final message
ReportedFiles == job.done

\* the file blocks in a document text: one per path written
BlockCount(text) == Cardinality({ i \in DOMAIN text : text[i].t = "path" })

\* the file blocks in the documents the job wrote, as they are on disk
RECURSIVE BlocksOnDisk(_)
BlocksOnDisk(names) ==
    IF names = {} THEN 0
    ELSE LET name == CHOOSE x \in names : TRUE
         IN  BlockCount(DocText(docs, name)) + BlocksOnDisk(names \ {name})

\* C26: at the end of a Grouped export the reported number of documents is
\* the number of distinct documents the job wrote successfully, and the
\* reported number of files is the number of file blocks in them.
C26_ReportMatchesDisk ==
    (lastOp.op = "start_export_grouped" /\ lastOp.res = "completed") =>
        /\ ReportedDocuments = Cardinality(job.written)
        /\ ReportedFiles = BlocksOnDisk(job.written)

\* a notification armed the debounce timer in this live session and no
\* re-export has run since
ReexportDue == is_auto_running /\ burst.pending

\* no notification has armed the timer for a full debounce window
NotificationsQuiet == burst.since = DebounceInterval

\* C27: while Live, if the notifications for watched paths eventually stop,
\* then after every notification a re-export eventually runs, unless live
\* mode is deactivated.
C27_ReexportEventuallyRuns ==
    (<>[]NotificationsQuiet) => (ReexportDue ~> ~ReexportDue)

\* a manual export passes its guards and opens its document
ManualExportStarts ==
    /\ ExportOutcome # "blocked"
    /\ StartExportGrouped \/ StartExportSingle

\* C28: while the controller is Live, whatever command arrives, the root
\* directory, the output directory and the check state of every node stay
\* as they are and no manual export starts.
C28_LiveLocksInputs ==
    [][ (is_auto_running /\ is_auto_running')
        => /\ UNCHANGED <<project_path, export_path, checkState>>
           /\ ~ManualExportStarts ]_vars

\* the documents the job opened for writing and wrote
OpenedForWriting == job.written

\* C29: no document an export opens for writing is one of its own selected
\* files, for every output directory and every selection.
C29_NoInputOverwritten ==
    (lastOp.op \in {"start_export_grouped", "start_export_single"} /\ job.mode # "none") =>
        \A f \in CheckedFiles : DocNamesAt(f) \cap OpenedForWriting = {}

====
